---- MODULE Spec2Model ----
(***************************************************************************)
(* State-machine model of the COCO annotation merge engine:                *)
(*   - the homogeneous merger   (scripts/coco_annotation_merger.py),       *)
(*   - the heterogeneous pair merger (scripts/strawberry_flower_annotation *)
(*     .py),                                                               *)
(*   - the heterogeneous directory merger (scripts/strawberry_flower_      *)
(*     annotations_combiner.py),                                           *)
(*   - the Geometry Normalizer (app/scripts/convert_segmentation_to_bbox   *)
(*     .py) and the merge tasks that run it on a merger's output           *)
(*     (app/gui_components).                                               *)
(* A python dict is a function (a record when its keys are strings), a     *)
(* python list is a sequence, a python string is a TLA+ string, except     *)
(* date_created, which is a sequence of character codes so that it can be  *)
(* compared lexicographically.  An absent dict key is an absent record     *)
(* field.                                                                  *)
(***************************************************************************)
EXTENDS Integers, Sequences, FiniteSets, TLC

VARIABLES
    task,                \* the merger that runs: "single", "dual" or "multi"
    pc,                  \* position of the running operation
    merged_data,         \* COCOAnnotationMerger.merged_data (homogeneous)
    license_map,         \* (name, url) -> merged license id
    category_map,        \* (name, supercategory) -> merged category id
    image_id_map,        \* source image id -> merged image id
    next_license_id,
    next_category_id,
    next_image_id,
    next_annotation_id,
    output_file,         \* content of the output path, NoFile before a write
    inputs,              \* history: the datasets read so far, in order
    filtered,            \* history: annotations skipped by a filter so far
    error,               \* the exception the operation ended with, or "none"
    strawberries_data,   \* pair merger: the primary dataset as loaded
    flowers_data,        \* pair merger: the secondary dataset as loaded
    strawberry_annotations,  \* directory merger: the primary files as loaded
    flower_annotations,      \* directory merger: the secondary files as loaded
    conv_data,           \* COCOSegmentationToBBoxConverter.coco_data
    input_path,          \* the converter reads "input" or the "output" path
    input_file,          \* content of the converter's own input path
    stats_label          \* the statistics a merge task displays, or NoLabel

vars == <<task, pc, merged_data, license_map, category_map, image_id_map,
          next_license_id, next_category_id, next_image_id,
          next_annotation_id, output_file, inputs, filtered, error,
          strawberries_data, flowers_data, strawberry_annotations,
          flower_annotations, conv_data, input_path, input_file,
          stats_label>>

pairVars == <<strawberries_data, flowers_data>>

dirVars == <<strawberry_annotations, flower_annotations>>

convVars == <<conv_data, input_path, input_file>>

uiVars == <<stats_label>>

homogVars == <<merged_data, license_map, category_map, image_id_map,
               next_license_id, next_category_id, next_image_id,
               next_annotation_id>>

(***************************************************************************)
(* Bounds of the model.                                                    *)
(***************************************************************************)
MaxFiles == 2        \* files in the input directory of the homogeneous merger
MaxLicenses == 1     \* licenses per file
MaxCategories == 2   \* categories per file
MaxImages == 1       \* images per file
MaxAnnotations == 1  \* annotations per file

(***************************************************************************)
(* Generic helpers.                                                        *)
(***************************************************************************)
SeqsUpTo(S, n) == UNION {[1..k -> S] : k \in 0..n}

Range(s) == {s[i] : i \in DOMAIN s}

EmptyDict == <<>>

\* a path no file has been written to: a value that is no dataset
NoFile == [exists |-> FALSE]

\* stats_label = None: no statistics are displayed
NoLabel == [shown |-> FALSE]

\* dict.get(k, default)
Get(d, k, default) == IF k \in DOMAIN d THEN d[k] ELSE default

\* d[k] = v on a dict
Put(d, k, v) == [x \in DOMAIN d \cup {k} |-> IF x = k THEN v ELSE d[x]]

\* python's truth value of a container: empty dict, list and str are falsy
Empty(c) == DOMAIN c = {}

\* python str comparison a > b on sequences of character codes
RECURSIVE StrGreater(_, _)
StrGreater(a, b) ==
    IF a = <<>> THEN FALSE
    ELSE IF b = <<>> THEN TRUE
    ELSE IF Head(a) # Head(b) THEN Head(a) > Head(b)
    ELSE StrGreater(Tail(a), Tail(b))

(***************************************************************************)
(* Input datasets of the homogeneous merger.                               *)
(***************************************************************************)
HInfos == {[date_created |-> <<2, 5>>]}

HLicenseSet == {[id |-> 1, name |-> "MIT", url |-> "u"],
                [id |-> 2, name |-> "CC", url |-> "u"]}

HCategorySet == {[id |-> 1, name |-> "cat", supercategory |-> "none"],
                 [id |-> 2, name |-> "cat", supercategory |-> "none"],
                 [id |-> 1, name |-> "dog", supercategory |-> "none"]}

HImageSet == {[id |-> 1, file_name |-> "a.jpg"],
              [id |-> 2, file_name |-> "b.jpg", license |-> 1]}

HAnnotationSet == [id : {1}, image_id : {1, 2}, category_id : {1, 2}]

HFiles == [info : HInfos,
           licenses : SeqsUpTo(HLicenseSet, MaxLicenses),
           categories : SeqsUpTo(HCategorySet, MaxCategories),
           images : SeqsUpTo(HImageSet, MaxImages),
           annotations : SeqsUpTo(HAnnotationSet, MaxAnnotations)]

(***************************************************************************)
(* The homogeneous merger, scripts/coco_annotation_merger.py.  The merger  *)
(* object is the record m of its fields.                                   *)
(***************************************************************************)
NewMerger ==
    [merged_data |-> [info |-> EmptyDict, licenses |-> <<>>, images |-> <<>>,
                      annotations |-> <<>>, categories |-> <<>>],
     license_map |-> EmptyDict,
     category_map |-> EmptyDict,
     image_id_map |-> EmptyDict,
     next_license_id |-> 1,
     next_category_id |-> 1,
     next_image_id |-> 1,
     next_annotation_id |-> 1]

\* process_info replacing the info on an equal date_created as well
process_info_NotStrict(m, coco_data) ==
    IF "info" \in DOMAIN coco_data
       /\ (Empty(m.merged_data["info"])
           \/ ~StrGreater(Get(m.merged_data["info"], "date_created", <<>>),
                          Get(coco_data["info"], "date_created", <<>>)))
    THEN [m EXCEPT !.merged_data["info"] = coco_data["info"]]
    ELSE m

process_info(m, coco_data) ==
    IF "info" \in DOMAIN coco_data
       /\ (Empty(m.merged_data["info"])
           \/ StrGreater(Get(coco_data["info"], "date_created", <<>>),
                         Get(m.merged_data["info"], "date_created", <<>>)))
    THEN [m EXCEPT !.merged_data["info"] = coco_data["info"]]
    ELSE m

LicenseKey(license) == <<Get(license, "name", ""), Get(license, "url", "")>>

CategoryKey(category) == <<category["name"], Get(category, "supercategory", "")>>

\* process_licenses giving a key that is in license_map already the next id
InternLicense_Reassign(m, license) ==
    LET key == LicenseKey(license) IN
    [m EXCEPT
        !.license_map = Put(@, key, m.next_license_id),
        !.merged_data["licenses"] =
            Append(@, Put(license, "id", m.next_license_id)),
        !.next_license_id = @ + 1]

\* one iteration of the loop of process_licenses
InternLicense(m, license) ==
    LET key == LicenseKey(license) IN
    IF key \notin DOMAIN m.license_map
    THEN [m EXCEPT
            !.license_map = Put(@, key, m.next_license_id),
            !.merged_data["licenses"] =
                Append(@, Put(license, "id", m.next_license_id)),
            !.next_license_id = @ + 1]
    ELSE m

RECURSIVE LicensesFrom(_, _)
LicensesFrom(m, licenses) ==
    IF licenses = <<>> THEN m
    ELSE LicensesFrom(InternLicense(m, Head(licenses)), Tail(licenses))

process_licenses(m, coco_data) ==
    LicensesFrom(m, Get(coco_data, "licenses", <<>>))

\* process_categories with the counter never advanced
InternCategory_NoAdvance(m, category) ==
    LET key == CategoryKey(category) IN
    IF key \notin DOMAIN m.category_map
    THEN [m EXCEPT
            !.category_map = Put(@, key, m.next_category_id),
            !.merged_data["categories"] =
                Append(@, Put(category, "id", m.next_category_id))]
    ELSE m

\* process_categories without the lookup of the natural key
InternCategory_NoDedup(m, category) ==
    LET key == CategoryKey(category) IN
    [m EXCEPT
        !.category_map = Put(@, key, m.next_category_id),
        !.merged_data["categories"] =
            Append(@, Put(category, "id", m.next_category_id)),
        !.next_category_id = @ + 1]

\* one iteration of the loop of process_categories
InternCategory(m, category) ==
    LET key == CategoryKey(category) IN
    IF key \notin DOMAIN m.category_map
    THEN [m EXCEPT
            !.category_map = Put(@, key, m.next_category_id),
            !.merged_data["categories"] =
                Append(@, Put(category, "id", m.next_category_id)),
            !.next_category_id = @ + 1]
    ELSE m

RECURSIVE CategoriesFrom(_, _)
CategoriesFrom(m, categories) ==
    IF categories = <<>> THEN m
    ELSE CategoriesFrom(InternCategory(m, Head(categories)), Tail(categories))

process_categories(m, coco_data) ==
    CategoriesFrom(m, Get(coco_data, "categories", <<>>))

\* the first entry of a list whose id is the given one: the for/if/break
\* lookups of process_images and process_annotations; <<>> when none has it
FirstWithId(list, id) ==
    LET hits == {i \in DOMAIN list : list[i]["id"] = id} IN
    IF hits = {} THEN <<>>
    ELSE <<list[CHOOSE i \in hits : \A j \in hits : i <= j]>>

\* process_images leaving the source id on the output image
RemapImage_KeepId(m, image, coco_data) ==
    LET found == IF "license" \in DOMAIN image
                 THEN FirstWithId(Get(coco_data, "licenses", <<>>),
                                  image["license"])
                 ELSE <<>>
        licensed ==
            IF found # <<>> /\ LicenseKey(found[1]) \in DOMAIN m.license_map
            THEN Put(image, "license", m.license_map[LicenseKey(found[1])])
            ELSE image
    IN [m EXCEPT
          !.image_id_map = Put(@, image["id"], m.next_image_id),
          !.merged_data["images"] = Append(@, licensed),
          !.next_image_id = @ + 1]

\* one iteration of the loop of process_images
RemapImage(m, image, coco_data) ==
    LET new_image == Put(image, "id", m.next_image_id)
        found == IF "license" \in DOMAIN image
                 THEN FirstWithId(Get(coco_data, "licenses", <<>>),
                                  image["license"])
                 ELSE <<>>
        licensed ==
            IF found # <<>> /\ LicenseKey(found[1]) \in DOMAIN m.license_map
            THEN Put(new_image, "license", m.license_map[LicenseKey(found[1])])
            ELSE new_image
    IN [m EXCEPT
          !.image_id_map = Put(@, image["id"], m.next_image_id),
          !.merged_data["images"] = Append(@, licensed),
          !.next_image_id = @ + 1]

RECURSIVE ImagesFrom(_, _, _)
ImagesFrom(m, images, coco_data) ==
    IF images = <<>> THEN m
    ELSE ImagesFrom(RemapImage(m, Head(images), coco_data), Tail(images),
                    coco_data)

process_images(m, coco_data) ==
    ImagesFrom(m, Get(coco_data, "images", <<>>), coco_data)

\* the filter of process_annotations: the annotation is skipped
Orphan(m, ann) == ann["image_id"] \notin DOMAIN m.image_id_map

\* process_annotations without the rewrite of category_id
RemapAnnotation_KeepCategory(m, ann, coco_data) ==
    IF Orphan(m, ann) THEN m
    ELSE
      LET new_ann == Put(Put(ann, "id", m.next_annotation_id),
                         "image_id", m.image_id_map[ann["image_id"]])
      IN [m EXCEPT
            !.merged_data["annotations"] = Append(@, new_ann),
            !.next_annotation_id = @ + 1]

\* one iteration of the loop of process_annotations
RemapAnnotation(m, ann, coco_data) ==
    IF Orphan(m, ann) THEN m
    ELSE
      LET new_ann == Put(Put(ann, "id", m.next_annotation_id),
                         "image_id", m.image_id_map[ann["image_id"]])
          found == FirstWithId(Get(coco_data, "categories", <<>>),
                               ann["category_id"])
          categorised ==
              IF found # <<>>
                 /\ CategoryKey(found[1]) \in DOMAIN m.category_map
              THEN Put(new_ann, "category_id",
                       m.category_map[CategoryKey(found[1])])
              ELSE new_ann
      IN [m EXCEPT
            !.merged_data["annotations"] = Append(@, categorised),
            !.next_annotation_id = @ + 1]

RECURSIVE AnnotationsFrom(_, _, _)
AnnotationsFrom(m, annotations, coco_data) ==
    IF annotations = <<>> THEN m
    ELSE AnnotationsFrom(RemapAnnotation(m, Head(annotations), coco_data),
                         Tail(annotations), coco_data)

process_annotations(m, coco_data) ==
    AnnotationsFrom(m, Get(coco_data, "annotations", <<>>), coco_data)

\* the body of the loop of process_all_files, for one loaded file
ProcessOneFile(m, coco_data) ==
    process_annotations(
        process_images(
            process_categories(
                process_licenses(process_info(m, coco_data), coco_data),
                coco_data),
            coco_data),
        coco_data)

\* the number of annotations of the file that process_annotations skips
SkippedAnnotations(m, coco_data) ==
    LET before == process_images(
                      process_categories(
                          process_licenses(process_info(m, coco_data),
                                           coco_data),
                          coco_data),
                      coco_data)
        anns == Get(coco_data, "annotations", <<>>)
    IN Cardinality({i \in DOMAIN anns : Orphan(before, anns[i])})

clean_empty_fields(data) ==
    [k \in {x \in DOMAIN data : ~Empty(data[x])} |-> data[k]]

\* the merger object in the current state
Merger ==
    [merged_data |-> merged_data,
     license_map |-> license_map,
     category_map |-> category_map,
     image_id_map |-> image_id_map,
     next_license_id |-> next_license_id,
     next_category_id |-> next_category_id,
     next_image_id |-> next_image_id,
     next_annotation_id |-> next_annotation_id]

SetMerger(m) ==
    /\ merged_data' = m.merged_data
    /\ license_map' = m.license_map
    /\ category_map' = m.category_map
    /\ image_id_map' = m.image_id_map
    /\ next_license_id' = m.next_license_id
    /\ next_category_id' = m.next_category_id
    /\ next_image_id' = m.next_image_id
    /\ next_annotation_id' = m.next_annotation_id

\* nothing is loaded yet
Unloaded == <<>>

\* the state of the three mergers before anything is loaded
FreshMergers ==
    /\ merged_data = NewMerger.merged_data
    /\ license_map = NewMerger.license_map
    /\ category_map = NewMerger.category_map
    /\ image_id_map = NewMerger.image_id_map
    /\ next_license_id = NewMerger.next_license_id
    /\ next_category_id = NewMerger.next_category_id
    /\ next_image_id = NewMerger.next_image_id
    /\ next_annotation_id = NewMerger.next_annotation_id
    /\ inputs = <<>>
    /\ filtered = 0
    /\ error = "none"
    /\ strawberries_data = Unloaded
    /\ flowers_data = Unloaded
    /\ strawberry_annotations = Unloaded
    /\ flower_annotations = Unloaded

\* the state every merger starts from: nothing is written yet, and a
\* converter built after the merge reads the output path
Fresh ==
    /\ FreshMergers
    /\ output_file = NoFile
    /\ conv_data = EmptyDict
    /\ input_path = "output"
    /\ input_file = NoFile
    /\ stats_label = NoLabel

\* COCOAnnotationMerger(input_dir, output_file)
Init ==
    /\ task = "single"
    /\ pc = "process_all_files"
    /\ Fresh

\* one iteration of process_all_files: the next file of the directory is
\* loaded and goes through the five process_ steps
ProcessFile ==
    /\ pc = "process_all_files"
    /\ Len(inputs) < MaxFiles
    /\ \E coco_data \in HFiles :
          /\ SetMerger(ProcessOneFile(Merger, coco_data))
          /\ inputs' = Append(inputs, coco_data)
          /\ filtered' = filtered + SkippedAnnotations(Merger, coco_data)
    /\ UNCHANGED <<task, pc, output_file, error, pairVars, dirVars, convVars,
                   uiVars>>

\* the loop of process_all_files ends, run goes on to clean_empty_fields
CleanEmptyFields ==
    /\ pc = "process_all_files"
    /\ merged_data' = clean_empty_fields(merged_data)
    /\ pc' = "save_output"
    /\ UNCHANGED <<license_map, category_map, image_id_map, next_license_id,
                   next_category_id, next_image_id, next_annotation_id,
                   output_file, inputs, filtered, error, task, pairVars,
                   dirVars, convVars, uiVars>>

SaveOutput ==
    /\ pc = "save_output"
    /\ output_file' = merged_data
    /\ pc' = "done"
    /\ UNCHANGED <<homogVars, inputs, filtered, error, task, pairVars,
                   dirVars, convVars, uiVars>>

Next == ProcessFile \/ CleanEmptyFields \/ SaveOutput

Spec == Init /\ [][Next]_vars

(***************************************************************************)
(* The heterogeneous pair merger, scripts/strawberry_flower_annotation.py. *)
(* An optional value (None or a value) is a sequence of length 0 or 1.     *)
(***************************************************************************)
None == <<>>

Some(v) == <<v>>

\* python's truth value of an optional integer: None and 0 are falsy
Truthy(opt) == opt # None /\ opt[1] # 0

Values(d) == {d[k] : k \in DOMAIN d}

\* the orders in which a python set can be iterated
Orderings(S) == {o \in [1..Cardinality(S) -> S] : Range(o) = S}

\* the last entry of a list whose field has the value k: a dict
\* comprehension keeps the last value of a repeated key
LastWith(list, field, k) ==
    list[CHOOSE i \in DOMAIN list :
            /\ list[i][field] = k
            /\ \A j \in DOMAIN list : list[j][field] = k => j <= i]

\* {cat["name"]: cat["id"] for cat in data["categories"]}
get_category_ids(data) ==
    [n \in {c["name"] : c \in Range(data["categories"])} |->
        LastWith(data["categories"], "name", n)["id"]]

\* d.get(k) of a dict of integers
GetOpt(d, k) == IF k \in DOMAIN d THEN Some(d[k]) ELSE None

\* {img["id"]: img["file_name"] for img in data["images"]}
ImageMap(data) ==
    [i \in {img["id"] : img \in Range(data["images"])} |->
        LastWith(data["images"], "id", i)["file_name"]]

\* {img["file_name"]: img for img in data["images"]}
ImagesByName(data) ==
    [n \in {img["file_name"] : img \in Range(data["images"])} |->
        LastWith(data["images"], "file_name", n)]

\* the two filters of organize_annotations: the category is one of the valid
\* ones and the image id resolves to a non-empty file name
Organizable(data, valid_categories, ann) ==
    /\ ann["category_id"] \in Values(valid_categories)
    /\ ann["image_id"] \in DOMAIN ImageMap(data)
    /\ ImageMap(data)[ann["image_id"]] # ""

organize_annotations(data, valid_categories, new_flower_id) ==
    LET image_map == ImageMap(data)
        kept == SelectSeq(data["annotations"],
                          LAMBDA ann : Organizable(data, valid_categories, ann))
        Renumber(ann) ==
            IF Truthy(new_flower_id)
               /\ ann["category_id"] = valid_categories["flower"]
            THEN Put(ann, "category_id", new_flower_id[1])
            ELSE ann
    IN [n \in {image_map[kept[i]["image_id"]] : i \in DOMAIN kept} |->
          LET named == SelectSeq(kept,
                           LAMBDA ann : image_map[ann["image_id"]] = n)
          IN [i \in DOMAIN named |-> Renumber(named[i])]]

\* the annotations organize_annotations leaves out
OrganizeSkipped(data, valid_categories) ==
    Cardinality({i \in DOMAIN data["annotations"] :
                    ~Organizable(data, valid_categories,
                                 data["annotations"][i])})

\* the second loop of merge_annotations from the i-th merged image on
RECURSIVE StampFrom(_, _, _, _, _)
StampFrom(i, order, strawberry_anns, flower_anns, merged_annotations) ==
    IF i > Len(order) THEN merged_annotations
    ELSE
      LET combined_anns == Get(strawberry_anns, order[i], <<>>)
                           \o Get(flower_anns, order[i], <<>>)
          stamped == [k \in DOMAIN combined_anns |->
                        Put(Put(combined_anns[k], "image_id", i),
                            "id", Len(merged_annotations) + k)]
      IN StampFrom(i + 1, order, strawberry_anns, flower_anns,
                   merged_annotations \o stamped)

\* merge_annotations numbering the images along the order and stamping the
\* annotations along the opposite order
merge_annotations_Misnumbered(strawberry_imgs, flower_imgs, strawberry_anns, flower_anns, order) ==
    LET merged_images ==
            [i \in DOMAIN order |->
                Put(IF order[i] \in DOMAIN strawberry_imgs
                    THEN strawberry_imgs[order[i]]
                    ELSE flower_imgs[order[i]],
                    "id", i)]
        opposite == [i \in DOMAIN order |-> order[Len(order) + 1 - i]]
    IN [images |-> merged_images,
        annotations |-> StampFrom(1, opposite, strawberry_anns, flower_anns,
                                  <<>>)]

\* merge_annotations, the set of file names being iterated in the given order
merge_annotations(strawberry_imgs, flower_imgs, strawberry_anns, flower_anns, order) ==
    LET merged_images ==
            [i \in DOMAIN order |->
                Put(IF order[i] \in DOMAIN strawberry_imgs
                    THEN strawberry_imgs[order[i]]
                    ELSE flower_imgs[order[i]],
                    "id", i)]
    IN [images |-> merged_images,
        annotations |-> StampFrom(1, order, strawberry_anns, flower_anns,
                                  <<>>)]

\* the three ids merge looks up
PairIds(primary, secondary) ==
    [fruit_ripe_id |-> GetOpt(get_category_ids(primary), "fruit_ripe"),
     fruit_unripe_id |-> GetOpt(get_category_ids(primary), "fruit_unripe"),
     flower_original_id |-> GetOpt(get_category_ids(secondary), "flower")]

\* not all([fruit_ripe_id, fruit_unripe_id, flower_original_id])
MissingExpected(primary, secondary) ==
    LET ids == PairIds(primary, secondary) IN
    ~(Truthy(ids.fruit_ripe_id) /\ Truthy(ids.fruit_unripe_id)
      /\ Truthy(ids.flower_original_id))

Max(a, b) == IF a >= b THEN a ELSE b

\* the new id taken from the first primary category alone
FlowerNewId_FirstOnly(fruit_ripe_id, fruit_unripe_id) == fruit_ripe_id + 1

\* flower_new_id = max(fruit_ripe_id, fruit_unripe_id) + 1
FlowerNewId(fruit_ripe_id, fruit_unripe_id) ==
    Max(fruit_ripe_id, fruit_unripe_id) + 1

\* the categories array with the renumbered category first
OutputCategories_FlowerFirst(fruit_ripe_id, fruit_unripe_id, flower_new_id) ==
    <<[id |-> flower_new_id, name |-> "flower"],
      [id |-> fruit_ripe_id, name |-> "fruit_ripe"],
      [id |-> fruit_unripe_id, name |-> "fruit_unripe"]>>

\* the categories array written by merge and by run
OutputCategories(fruit_ripe_id, fruit_unripe_id, flower_new_id) ==
    <<[id |-> fruit_ripe_id, name |-> "fruit_ripe"],
      [id |-> fruit_unripe_id, name |-> "fruit_unripe"],
      [id |-> flower_new_id, name |-> "flower"]>>

\* the file names of the primary dataset alone
PairFileNames_PrimaryOnly(primary, secondary) == DOMAIN ImagesByName(primary)

\* the file names merge_annotations iterates over
PairFileNames(primary, secondary) ==
    DOMAIN ImagesByName(primary) \cup DOMAIN ImagesByName(secondary)

\* final_coco of merge once the category check has passed
FinalCoco(primary, secondary, order) ==
    LET ids == PairIds(primary, secondary)
        fruit_ripe_id == ids.fruit_ripe_id[1]
        fruit_unripe_id == ids.fruit_unripe_id[1]
        flower_original_id == ids.flower_original_id[1]
        flower_new_id == FlowerNewId(fruit_ripe_id, fruit_unripe_id)
        strawberry_anns ==
            organize_annotations(primary, get_category_ids(primary), None)
        flower_anns ==
            organize_annotations(secondary,
                                 [n \in {"flower"} |-> flower_original_id],
                                 Some(flower_new_id))
        merged == merge_annotations(ImagesByName(primary),
                                    ImagesByName(secondary),
                                    strawberry_anns, flower_anns, order)
    IN [info |-> Get(primary, "info", EmptyDict),
        licenses |-> Get(primary, "licenses", <<>>),
        images |-> merged.images,
        annotations |-> merged.annotations,
        categories |-> OutputCategories(fruit_ripe_id, fruit_unripe_id,
                                        flower_new_id)]

(***************************************************************************)
(* Input datasets of the pair merger.                                      *)
(***************************************************************************)
MaxCategoryId == 2   \* the ids of fruit_ripe and fruit_unripe are 0..this
MaxPairImages == 1   \* images per dataset of the pair merger
MaxPairAnnotations == 1  \* annotations per dataset of the pair merger

LeafId == MaxCategoryId + 1

FlowerIds == {0, 1, 7}

\* a category of the given name, or none
OptCategory(name, opt) ==
    IF opt = None THEN <<>> ELSE <<[id |-> opt[1], name |-> name]>>

OptIds(S) == {None} \cup {Some(i) : i \in S}

PrimaryCategoryLists ==
    {OptCategory("fruit_ripe", r) \o OptCategory("fruit_unripe", u)
        \o OptCategory("leaf", l) :
        r \in OptIds(0..MaxCategoryId), u \in OptIds(0..MaxCategoryId),
        l \in OptIds({LeafId})}

SecondaryCategoryLists == {OptCategory("flower", f) : f \in OptIds(FlowerIds)}

PImageSet == [id : {1, 2}, file_name : {"a.jpg", "b.jpg"}]

PrimaryAnnotationSet ==
    [id : {1}, image_id : {1, 2}, category_id : 1..LeafId]

SecondaryAnnotationSet ==
    [id : {1}, image_id : {1, 2}, category_id : FlowerIds \ {0}]

PrimaryDatasets ==
    [info : {EmptyDict}, licenses : {<<>>},
     categories : PrimaryCategoryLists,
     images : SeqsUpTo(PImageSet, MaxPairImages),
     annotations : SeqsUpTo(PrimaryAnnotationSet, MaxPairAnnotations)]

SecondaryDatasets ==
    [info : {EmptyDict}, licenses : {<<>>},
     categories : SecondaryCategoryLists,
     images : SeqsUpTo(PImageSet, MaxPairImages),
     annotations : SeqsUpTo(SecondaryAnnotationSet, MaxPairAnnotations)]

\* COCOAnnotationMerger(strawberry_file, flower_file, output_file)
InitPair ==
    /\ task = "dual"
    /\ pc = "load_json"
    /\ Fresh

\* merge: the two load_json calls
PairLoad ==
    /\ task = "dual"
    /\ pc = "load_json"
    /\ strawberries_data' \in PrimaryDatasets
    /\ flowers_data' \in SecondaryDatasets
    /\ pc' = "merge"
    /\ UNCHANGED <<task, homogVars, output_file, inputs, filtered, error,
                   dirVars, convVars, uiVars>>

\* merge: the category check raises ValueError
PairRaise ==
    /\ task = "dual"
    /\ pc = "merge"
    /\ MissingExpected(strawberries_data, flowers_data)
    /\ error' = "Missing expected categories in input files."
    /\ pc' = "failed"
    /\ UNCHANGED <<task, homogVars, output_file, inputs, filtered, pairVars,
                   dirVars, convVars, uiVars>>

\* merge: the rest of the method, down to save_json
PairMerge ==
    /\ task = "dual"
    /\ pc = "merge"
    /\ ~MissingExpected(strawberries_data, flowers_data)
    /\ \E order \in Orderings(PairFileNames(strawberries_data, flowers_data)) :
          output_file' = FinalCoco(strawberries_data, flowers_data, order)
    /\ filtered' =
          OrganizeSkipped(strawberries_data,
                          get_category_ids(strawberries_data))
          + OrganizeSkipped(flowers_data,
               [n \in {"flower"} |->
                   PairIds(strawberries_data,
                           flowers_data).flower_original_id[1]])
    /\ pc' = "done"
    /\ UNCHANGED <<task, homogVars, inputs, error, pairVars, dirVars,
                   convVars, uiVars>>

NextPair == PairLoad \/ PairRaise \/ PairMerge

SpecPair == InitPair /\ [][NextPair]_vars

(***************************************************************************)
(* The heterogeneous directory merger,                                     *)
(* scripts/strawberry_flower_annotations_combiner.py.                      *)
(***************************************************************************)
\* the test at the head of the loop of process_annotations: the file is
\* skipped
SkippedFile(data) == Empty(data["annotations"]) \/ Empty(data["images"])

\* the filter on the annotations of a file that is not skipped
ValidAnnotation(valid_categories, ann) ==
    ann["category_id"] \in Values(valid_categories)

\* one iteration of the loop of process_annotations over the files
ProcessDirFile(result, data, valid_categories, new_flower_id) ==
    IF SkippedFile(data) THEN result
    ELSE
      LET image == data["images"][1]
          file_name == image["file_name"]
          Copy(ann) ==
              Put(IF Truthy(new_flower_id)
                     /\ GetOpt(valid_categories, "flower")
                          = Some(ann["category_id"])
                  THEN Put(ann, "category_id", new_flower_id[1])
                  ELSE ann,
                  "image_id", file_name)
          valid ==
              SelectSeq(data["annotations"],
                        LAMBDA ann : ValidAnnotation(valid_categories, ann))
          valid_anns == [i \in DOMAIN valid |-> Copy(valid[i])]
      IN Put(result, file_name, <<image, valid_anns>>)

RECURSIVE DirFilesFrom(_, _, _, _)
DirFilesFrom(result, annotation_files, valid_categories, new_flower_id) ==
    IF annotation_files = <<>> THEN result
    ELSE DirFilesFrom(ProcessDirFile(result, Head(annotation_files),
                                     valid_categories, new_flower_id),
                      Tail(annotation_files), valid_categories, new_flower_id)

\* CombinerProcess is process_annotations of COCOAnnotationCombiner
CombinerProcess(annotation_files, valid_categories, new_flower_id) ==
    DirFilesFrom(EmptyDict, annotation_files, valid_categories, new_flower_id)

\* the annotations the filters of process_annotations leave out: those of a
\* skipped file and those of a category that is not valid
RECURSIVE ProcessSkipped(_, _)
ProcessSkipped(annotation_files, valid_categories) ==
    IF annotation_files = <<>> THEN 0
    ELSE LET data == Head(annotation_files) IN
         (IF SkippedFile(data) THEN Len(data["annotations"])
          ELSE Cardinality({i \in DOMAIN data["annotations"] :
                  ~ValidAnnotation(valid_categories, data["annotations"][i])}))
         + ProcessSkipped(Tail(annotation_files), valid_categories)

\* the loop of combine_datasets from the i-th file name on
RECURSIVE CombineFrom(_, _, _, _, _)
CombineFrom(i, order, straw_dict, flower_dict, acc) ==
    IF i > Len(order) THEN acc
    ELSE
      LET name == order[i]
          image == IF name \in DOMAIN straw_dict THEN straw_dict[name][1]
                   ELSE flower_dict[name][1]
          anns_straw == IF name \in DOMAIN straw_dict THEN straw_dict[name][2]
                        ELSE <<>>
          anns_flower == IF name \in DOMAIN flower_dict
                         THEN flower_dict[name][2] ELSE <<>>
          all_anns == anns_straw \o anns_flower
          stamped == [k \in DOMAIN all_anns |->
                        Put(Put(all_anns[k], "id", Len(acc.annotations) + k),
                            "image_id", i)]
      IN CombineFrom(i + 1, order, straw_dict, flower_dict,
                     [images |-> Append(acc.images, Put(image, "id", i)),
                      annotations |-> acc.annotations \o stamped])

\* combine_datasets, the set of file names being iterated in the given order
combine_datasets(straw_dict, flower_dict, order) ==
    CombineFrom(1, order, straw_dict, flower_dict,
                [images |-> <<>>, annotations |-> <<>>])

\* the exception lines 116 to 121 of run raise, or "none"
DirError(straws, flowers) ==
    IF straws = <<>> \/ flowers = <<>> THEN "IndexError"
    ELSE IF \/ "fruit_ripe" \notin DOMAIN get_category_ids(straws[1])
            \/ "fruit_unripe" \notin DOMAIN get_category_ids(straws[1])
            \/ "flower" \notin DOMAIN get_category_ids(flowers[1])
    THEN "KeyError"
    ELSE "none"

DirStrawDict(straws) ==
    CombinerProcess(straws, get_category_ids(straws[1]), None)

DirFlowerDict(straws, flowers) ==
    LET strawberry_cats == get_category_ids(straws[1]) IN
    CombinerProcess(flowers, get_category_ids(flowers[1]),
                    Some(FlowerNewId(strawberry_cats["fruit_ripe"],
                                     strawberry_cats["fruit_unripe"])))

\* merged_data of run once the categories have been found
DirMergedData(straws, flowers, order) ==
    LET strawberry_cats == get_category_ids(straws[1])
        id_fruit_ripe == strawberry_cats["fruit_ripe"]
        id_fruit_unripe == strawberry_cats["fruit_unripe"]
        id_flower_new == FlowerNewId(id_fruit_ripe, id_fruit_unripe)
        combined == combine_datasets(DirStrawDict(straws),
                                     DirFlowerDict(straws, flowers), order)
    IN [info |-> Get(straws[1], "info", EmptyDict),
        licenses |-> Get(straws[1], "licenses", <<>>),
        images |-> combined.images,
        annotations |-> combined.annotations,
        categories |-> OutputCategories(id_fruit_ripe, id_fruit_unripe,
                                        id_flower_new)]

(***************************************************************************)
(* Input directories of the directory merger.                              *)
(***************************************************************************)
MaxDirFiles == 2     \* files per directory of the directory merger

DirImageLists == {<<>>} \cup {<<[id |-> 1, file_name |-> n]>> :
                                 n \in {"a.jpg", "b.jpg"}}

DirAnnotationLists(category_ids) ==
    {<<>>} \cup {<<[id |-> 1, image_id |-> 1, category_id |-> c]>> :
                    c \in category_ids}

StrawberryFiles ==
    [info : {EmptyDict}, licenses : {<<>>},
     categories : {OptCategory("fruit_ripe", r)
                     \o OptCategory("fruit_unripe", Some(2))
                     \o OptCategory("leaf", Some(3)) :
                     r \in OptIds({1, 4})},
     images : DirImageLists,
     annotations : DirAnnotationLists({1, 3})]

FlowerFiles ==
    [info : {EmptyDict}, licenses : {<<>>},
     categories : SecondaryCategoryLists \ {OptCategory("flower", Some(0))},
     images : DirImageLists,
     annotations : DirAnnotationLists({1, 7})]

\* COCOAnnotationCombiner(dir_strawberries, dir_flowers, output_file)
InitDir ==
    /\ task = "multi"
    /\ pc = "load_annotations_from_directory"
    /\ Fresh

\* run: the two load_annotations_from_directory calls
DirLoad ==
    /\ task = "multi"
    /\ pc = "load_annotations_from_directory"
    /\ strawberry_annotations' \in SeqsUpTo(StrawberryFiles, MaxDirFiles)
    /\ flower_annotations' \in SeqsUpTo(FlowerFiles, MaxDirFiles)
    /\ pc' = "run"
    /\ UNCHANGED <<task, homogVars, output_file, inputs, filtered, error,
                   pairVars, convVars, uiVars>>

\* run: the extraction of the category ids raises
DirRaise ==
    /\ task = "multi"
    /\ pc = "run"
    /\ DirError(strawberry_annotations, flower_annotations) # "none"
    /\ error' = DirError(strawberry_annotations, flower_annotations)
    /\ pc' = "failed"
    /\ UNCHANGED <<task, homogVars, output_file, inputs, filtered, pairVars,
                   dirVars, convVars, uiVars>>

\* run: the rest of the method, down to json.dump
DirRun ==
    /\ task = "multi"
    /\ pc = "run"
    /\ DirError(strawberry_annotations, flower_annotations) = "none"
    /\ \E order \in Orderings(
              DOMAIN DirStrawDict(strawberry_annotations)
              \cup DOMAIN DirFlowerDict(strawberry_annotations,
                                        flower_annotations)) :
          output_file' = DirMergedData(strawberry_annotations,
                                       flower_annotations, order)
    /\ filtered' =
          ProcessSkipped(strawberry_annotations,
                         get_category_ids(strawberry_annotations[1]))
          + ProcessSkipped(flower_annotations,
                           get_category_ids(flower_annotations[1]))
    /\ pc' = "done"
    /\ UNCHANGED <<task, homogVars, inputs, error, pairVars, dirVars,
                   convVars, uiVars>>

NextDir == DirLoad \/ DirRaise \/ DirRun

SpecDir == InitDir /\ [][NextDir]_vars

(***************************************************************************)
(* The three mergers together: the caller runs one of them.                *)
(***************************************************************************)
InitAll == Init \/ InitPair \/ InitDir

NextAll == Next \/ NextPair \/ NextDir

SpecAll == InitAll /\ [][NextAll]_vars

InitHetero == InitPair \/ InitDir

NextHetero == NextPair \/ NextDir

SpecHetero == InitHetero /\ [][NextHetero]_vars

(***************************************************************************)
(* The Geometry Normalizer, app/scripts/convert_segmentation_to_bbox.py.   *)
(* The value of a "bbox" key is the record of its python type and, for a   *)
(* list, of its items; an item is the record of its python type and of its *)
(* number (0 for a str; the nearest integer for a float; 0 or 1 for a      *)
(* bool).                                                                  *)
(***************************************************************************)
\* the required keys without "licenses"
required_keys_NoLicenses == <<"info", "images", "annotations", "categories">>

\* self.required_keys
required_keys == <<"info", "licenses", "images", "annotations", "categories">>

\* the message of the ValueError that validate raises for the key
MissingKeyError(key) ==
    CASE key = "info" -> "Missing required key in COCO JSON: 'info'"
      [] key = "licenses" -> "Missing required key in COCO JSON: 'licenses'"
      [] key = "images" -> "Missing required key in COCO JSON: 'images'"
      [] key = "annotations" ->
             "Missing required key in COCO JSON: 'annotations'"
      [] key = "categories" ->
             "Missing required key in COCO JSON: 'categories'"

\* validate: the message of the first required key absent from the dataset,
\* "none" when validate returns
validate(data) ==
    LET missing == {i \in DOMAIN required_keys :
                       required_keys[i] \notin DOMAIN data}
    IN IF missing = {} THEN "none"
       ELSE MissingKeyError(
                required_keys[CHOOSE i \in missing :
                                 \A j \in missing : i <= j])

\* isinstance(v, (int, float)): a python bool is an int
IsIntOrFloat(v) == v.type \in {"int", "float", "bool"}

\* the bbox test with zero rejected as well
ValidBBox_Positive(ann) ==
    /\ "bbox" \in DOMAIN ann
    /\ ann["bbox"].type = "list"
    /\ Len(ann["bbox"].items) = 4
    /\ \A i \in DOMAIN ann["bbox"].items :
          IsIntOrFloat(ann["bbox"].items[i]) /\ ann["bbox"].items[i].value > 0

\* the bbox test that lets an annotation with a polygon through
ValidBBox_OrSegmented(ann) ==
    \/ /\ "segmentation" \in DOMAIN ann
       /\ ann["segmentation"] # <<>>
    \/ /\ "bbox" \in DOMAIN ann
       /\ ann["bbox"].type = "list"
       /\ Len(ann["bbox"].items) = 4
       /\ \A i \in DOMAIN ann["bbox"].items :
             IsIntOrFloat(ann["bbox"].items[i])
             /\ ann["bbox"].items[i].value >= 0

\* the condition of clean_annotations under which an annotation is kept
ValidBBox(ann) ==
    /\ "bbox" \in DOMAIN ann
    /\ ann["bbox"].type = "list"
    /\ Len(ann["bbox"].items) = 4
    /\ \A i \in DOMAIN ann["bbox"].items :
          IsIntOrFloat(ann["bbox"].items[i]) /\ ann["bbox"].items[i].value >= 0

\* clean_annotations giving the kept annotations the ids 1, 2, ...
clean_annotations_Renumbered(data) ==
    LET annotations == Get(data, "annotations", <<>>)
        cleaned == SelectSeq(annotations, ValidBBox)
    IN Put(data, "annotations",
           [i \in DOMAIN cleaned |->
               Put(Put(cleaned[i], "segmentation", <<>>), "id", i)])

\* clean_annotations: coco_data after the call
clean_annotations(data) ==
    LET annotations == Get(data, "annotations", <<>>)
        cleaned == SelectSeq(annotations, ValidBBox)
    IN Put(data, "annotations",
           [i \in DOMAIN cleaned |-> Put(cleaned[i], "segmentation", <<>>)])

\* the content of the path the converter reads
InputContent == IF input_path = "output" THEN output_file ELSE input_file

\* convert: load
ConvLoad ==
    /\ pc = "load"
    /\ conv_data' = InputContent
    /\ pc' = "validate"
    /\ UNCHANGED <<task, homogVars, output_file, inputs, filtered, error,
                   pairVars, dirVars, input_path, input_file, uiVars>>

\* convert: validate raises ValueError
ConvRaise ==
    /\ pc = "validate"
    /\ validate(conv_data) # "none"
    /\ error' = validate(conv_data)
    /\ pc' = "failed"
    /\ UNCHANGED <<task, homogVars, output_file, inputs, filtered, pairVars,
                   dirVars, convVars, uiVars>>

\* convert: validate returns
ConvValidate ==
    /\ pc = "validate"
    /\ validate(conv_data) = "none"
    /\ pc' = "clean_annotations"
    /\ UNCHANGED <<task, homogVars, output_file, inputs, filtered, error,
                   pairVars, dirVars, convVars, uiVars>>

\* convert: clean_annotations
ConvClean ==
    /\ pc = "clean_annotations"
    /\ conv_data' = clean_annotations(conv_data)
    /\ pc' = "save"
    /\ UNCHANGED <<task, homogVars, output_file, inputs, filtered, error,
                   pairVars, dirVars, input_path, input_file, uiVars>>

\* convert: save
ConvSave ==
    /\ pc = "save"
    /\ output_file' = conv_data
    /\ pc' = "converted"
    /\ UNCHANGED <<task, homogVars, inputs, filtered, error, pairVars,
                   dirVars, convVars, uiVars>>

NextConvert == ConvLoad \/ ConvRaise \/ ConvValidate \/ ConvClean \/ ConvSave

(***************************************************************************)
(* Input datasets of the normalizer.                                       *)
(***************************************************************************)
MaxNormAnnotations == 2  \* annotations of a dataset given to the normalizer

JInt(n) == [type |-> "int", value |-> n]

JFloat(n) == [type |-> "float", value |-> n]

JStr == [type |-> "str", value |-> 0]

JBool(b) == [type |-> "bool", value |-> IF b THEN 1 ELSE 0]

JList(items) == [type |-> "list", items |-> items]

\* a bbox that is no list, such as the string "0,0,5,5"
NotAList == [type |-> "str", items |-> <<>>]

\* lists of four numbers >= 0, among them zero sizes
GoodBoxes == {JList(b) : b \in [1..4 -> {JInt(0), JFloat(5)}]}

\* lists of four items of which one is negative, no number, or a bool
OddBoxes ==
    {JList([i \in 1..4 |-> IF i = k THEN v ELSE JInt(0)]) :
        k \in 1..4, v \in {JInt(-5), JFloat(-1), JStr, JBool(TRUE)}}

\* lists of a wrong length
ShortBoxes == {JList(<<JInt(0), JInt(0), JInt(5)>>),
               JList(<<JInt(0), JInt(0), JInt(5), JInt(5), JInt(5)>>)}

BBoxes == GoodBoxes \cup OddBoxes \cup ShortBoxes \cup {NotAList}

Polygons == {<<>>, <<<<0, 0, 5, 0, 5, 5>>>>}

\* an annotation without a bbox key, or with one of the boxes
NormAnnotationSet ==
    [id : {1}, image_id : {1}, category_id : {1}, segmentation : Polygons]
    \cup [id : {1}, image_id : {1}, category_id : {1},
          segmentation : Polygons, bbox : BBoxes]

\* the annotations array of a file: the i-th annotation has the id i
NormAnnotationLists ==
    {[i \in DOMAIN anns |-> Put(anns[i], "id", i)] :
        anns \in SeqsUpTo(NormAnnotationSet, MaxNormAnnotations)}

\* the top-level keys of a COCO file
TopLevelKeys == {"info", "licenses", "images", "annotations", "categories"}

\* the dataset restricted to the given top-level keys
WithKeys(data, keys) == [k \in keys |-> data[k]]

NormDataset(annotations) ==
    [info |-> EmptyDict,
     licenses |-> <<>>,
     images |-> <<[id |-> 1, file_name |-> "a.jpg"]>>,
     annotations |-> annotations,
     categories |-> <<[id |-> 1, name |-> "cat"]>>]

\* complete datasets, and datasets of at most one annotation that lack some
\* of the top-level keys
NormDatasets ==
    {NormDataset(anns) : anns \in NormAnnotationLists}
    \cup {WithKeys(NormDataset(anns), keys) :
             anns \in {a \in NormAnnotationLists : Len(a) <= 1},
             keys \in SUBSET TopLevelKeys}

\* COCOSegmentationToBBoxConverter(input_path, output_path): the input file
\* exists, and the output path is the same path or a path not written yet
InitConvert ==
    /\ task = "Bbox"
    /\ pc = "load"
    /\ FreshMergers
    /\ conv_data = EmptyDict
    /\ stats_label = NoLabel
    /\ input_path \in {"input", "output"}
    /\ \E data \in NormDatasets :
          /\ input_file = IF input_path = "input" THEN data ELSE NoFile
          /\ output_file = IF input_path = "output" THEN data ELSE NoFile

SpecConvert == InitConvert /\ [][NextConvert]_vars

(***************************************************************************)
(* The merge tasks of the application, app/gui_components: a merger runs   *)
(* and, when the "bbox_only" format is selected, the Geometry Normalizer   *)
(* converts the file the merger has written, in place.                     *)
(***************************************************************************)
MaxUIFiles == 2      \* files in the input directory of the merge task

UIInfos == {EmptyDict,
            [description |-> "d"],
            [date_created |-> <<2, 5>>],
            [date_created |-> <<2, 5>>, description |-> "d"],
            [date_created |-> <<3>>]}

UIBoxes == {JList(<<JInt(0), JInt(0), JFloat(5), JInt(0)>>),
            JList(<<JInt(0), JInt(0), JInt(-5), JFloat(5)>>)}

UIAnnotationSet ==
    [id : {1}, image_id : {1}, category_id : {1},
     segmentation : {<<<<0, 0, 5, 0, 5, 5>>>>}, bbox : UIBoxes]

\* files with the five keys, some of them empty
UICompleteFiles ==
    [info : UIInfos,
     licenses : {<<>>, <<[id |-> 1, name |-> "MIT", url |-> "u"]>>},
     categories : {<<>>, <<[id |-> 1, name |-> "cat",
                           supercategory |-> "none"]>>},
     images : {<<>>, <<[id |-> 1, file_name |-> "a.jpg"]>>},
     annotations : SeqsUpTo(UIAnnotationSet, 1)]

\* the files of the input directory: complete files, and one file cut down
\* to each set of top-level keys
UIFiles ==
    UICompleteFiles
    \cup {WithKeys([info |-> [date_created |-> <<2, 5>>],
                    licenses |-> <<[id |-> 1, name |-> "MIT", url |-> "u"]>>,
                    categories |-> <<[id |-> 1, name |-> "cat",
                                      supercategory |-> "none"]>>,
                    images |-> <<[id |-> 1, file_name |-> "a.jpg"]>>,
                    annotations |-> <<>>], keys) :
             keys \in SUBSET TopLevelKeys}

\* one iteration of process_all_files on a file of the input directory
UIProcessFile ==
    /\ task = "single"
    /\ pc = "process_all_files"
    /\ Len(inputs) < MaxUIFiles
    /\ \E file \in UIFiles :
          /\ SetMerger(ProcessOneFile(Merger, file))
          /\ inputs' = Append(inputs, file)
          /\ filtered' = filtered + SkippedAnnotations(Merger, file)
    /\ UNCHANGED <<task, pc, output_file, error, pairVars, dirVars, convVars,
                   uiVars>>

UIPrimaryDatasets ==
    [info : {EmptyDict}, licenses : {<<>>},
     categories : {<<[id |-> 1, name |-> "fruit_ripe"],
                     [id |-> 2, name |-> "fruit_unripe"]>>,
                   <<[id |-> 1, name |-> "fruit_ripe"]>>},
     images : SeqsUpTo({[id |-> 1, file_name |-> "a.jpg"]}, 1),
     annotations : {[i \in DOMAIN anns |-> Put(anns[i], "id", i)] :
                       anns \in SeqsUpTo(UIAnnotationSet, 2)}]

UISecondaryDatasets ==
    [info : {EmptyDict}, licenses : {<<>>},
     categories : {<<[id |-> 1, name |-> "flower"]>>},
     images : SeqsUpTo([id : {1}, file_name : {"a.jpg", "b.jpg"}], 1),
     annotations : SeqsUpTo(UIAnnotationSet, 1)]

\* merge: the two load_json calls on the files selected in the task
UIPairLoad ==
    /\ task = "dual"
    /\ pc = "load_json"
    /\ strawberries_data' \in UIPrimaryDatasets
    /\ flowers_data' \in UISecondaryDatasets
    /\ pc' = "merge"
    /\ UNCHANGED <<task, homogVars, output_file, inputs, filtered, error,
                   dirVars, convVars, uiVars>>

\* start_merge and run_merge after the merger has returned, with the format
\* "bbox_only": COCOSegmentationToBBoxConverter(output_path, output_path)
StartConverter ==
    /\ task \in {"single", "dual"}
    /\ pc = "done"
    /\ conv_data' = EmptyDict
    /\ input_path' = "output"
    /\ pc' = "load"
    /\ UNCHANGED <<task, homogVars, output_file, inputs, filtered, error,
                   pairVars, dirVars, input_file, uiVars>>

\* display_stats: the label text, as the two totals and one line for each
\* category id of the annotations, in the order of first occurrence
display_stats(data) ==
    LET annotations == Get(data, "annotations", <<>>)
        categories == Get(data, "categories", <<>>)
        first == SelectSeq([i \in DOMAIN annotations |-> i],
                    LAMBDA i : \A j \in 1..(i - 1) :
                       annotations[j]["category_id"]
                          # annotations[i]["category_id"])
        name(cat_id) ==
            IF \E k \in DOMAIN categories : categories[k]["id"] = cat_id
            THEN LastWith(categories, "id", cat_id)["name"]
            ELSE "Unknown"
        count(cat_id) ==
            Cardinality({i \in DOMAIN annotations :
                            annotations[i]["category_id"] = cat_id})
    IN [total_images |-> Len(Get(data, "images", <<>>)),
        total_anns |-> Len(annotations),
        lines |-> [k \in DOMAIN first |->
                     LET cat_id == annotations[first[k]]["category_id"]
                     IN [name |-> name(cat_id), cat_id |-> cat_id,
                         count |-> count(cat_id)]]]

\* start_merge once the merger, and with "bbox_only" the converter, has
\* returned: display_stats(merger.merged_data)
DisplayStats ==
    /\ task = "single"
    /\ pc \in {"done", "converted"}
    /\ stats_label' = display_stats(merged_data)
    /\ pc' = "displayed"
    /\ UNCHANGED <<task, homogVars, output_file, inputs, filtered, error,
                   pairVars, dirVars, convVars>>

\* run_merge once the merger, and with "bbox_only" the converter, has
\* returned: display_stats(merger) loads the output file again
DualDisplayStats ==
    /\ task = "dual"
    /\ pc \in {"done", "converted"}
    /\ stats_label' = display_stats(output_file)
    /\ pc' = "displayed"
    /\ UNCHANGED <<task, homogVars, output_file, inputs, filtered, error,
                   pairVars, dirVars, convVars>>

InitUI == Init \/ InitPair

NextUI ==
    \/ UIProcessFile
    \/ CleanEmptyFields
    \/ SaveOutput
    \/ UIPairLoad
    \/ PairRaise
    \/ PairMerge
    \/ StartConverter
    \/ NextConvert
    \/ DisplayStats
    \/ DualDisplayStats

SpecUI == InitUI /\ [][NextUI]_vars

(***************************************************************************)
(* A second invocation of run on the same COCOAnnotationMerger object.     *)
(* __init__ is the only place that sets the counters, the maps and         *)
(* merged_data, and clean_empty_fields may have deleted keys of            *)
(* merged_data, so that an item access of a process_ method can raise      *)
(* KeyError.                                                               *)
(***************************************************************************)
KeyErrorOf(key) ==
    CASE key = "info" -> "KeyError: 'info'"
      [] key = "licenses" -> "KeyError: 'licenses'"
      [] key = "categories" -> "KeyError: 'categories'"
      [] key = "images" -> "KeyError: 'images'"
      [] key = "annotations" -> "KeyError: 'annotations'"

Raised(m, key) == [merger |-> m, error |-> KeyErrorOf(key)]

\* the first entry of the list whose key is not in the map yet
FirstNewLicense(m, licenses) ==
    LET new == {i \in DOMAIN licenses :
                   LicenseKey(licenses[i]) \notin DOMAIN m.license_map}
    IN IF new = {} THEN <<>>
       ELSE <<licenses[CHOOSE i \in new : \A j \in new : i <= j]>>

FirstNewCategory(m, categories) ==
    LET new == {i \in DOMAIN categories :
                   CategoryKey(categories[i]) \notin DOMAIN m.category_map}
    IN IF new = {} THEN <<>>
       ELSE <<categories[CHOOSE i \in new : \A j \in new : i <= j]>>

\* the five process_ calls of process_all_files on one file: the merger
\* after them, or the merger as the first KeyError leaves it
RunFile(m, coco_data) ==
    LET absent(key) == key \notin DOMAIN m.merged_data
        m1 == process_info(m, coco_data)
        license == FirstNewLicense(m1, Get(coco_data, "licenses", <<>>))
        m2 == process_licenses(m1, coco_data)
        category == FirstNewCategory(m2, Get(coco_data, "categories", <<>>))
        m3 == process_categories(m2, coco_data)
        images == Get(coco_data, "images", <<>>)
        m4 == process_images(m3, coco_data)
        annotations == Get(coco_data, "annotations", <<>>)
    IN IF "info" \in DOMAIN coco_data /\ absent("info")
       THEN Raised(m, "info")
       ELSE IF license # <<>> /\ absent("licenses")
       THEN Raised([m1 EXCEPT !.license_map =
                        Put(@, LicenseKey(license[1]), m1.next_license_id)],
                   "licenses")
       ELSE IF category # <<>> /\ absent("categories")
       THEN Raised([m2 EXCEPT !.category_map =
                        Put(@, CategoryKey(category[1]),
                            m2.next_category_id)],
                   "categories")
       ELSE IF images # <<>> /\ absent("images")
       THEN Raised([m3 EXCEPT !.image_id_map =
                        Put(@, images[1]["id"], m3.next_image_id)],
                   "images")
       ELSE IF absent("annotations")
               /\ \E i \in DOMAIN annotations : ~Orphan(m4, annotations[i])
       THEN Raised(m4, "annotations")
       ELSE [merger |-> process_annotations(m4, coco_data),
             error |-> "none"]

\* process_all_files on the files from the i-th on
RECURSIVE RunFrom(_, _, _)
RunFrom(m, files, i) ==
    IF i > Len(files) THEN [merger |-> m, error |-> "none", read |-> i - 1]
    ELSE LET r == RunFile(m, files[i]) IN
         IF r.error # "none"
         THEN [merger |-> r.merger, error |-> r.error, read |-> i]
         ELSE RunFrom(r.merger, files, i + 1)

\* run once more on the same object and the same directory
RunAgain ==
    /\ task = "single"
    /\ pc = "done"
    /\ LET r == RunFrom(Merger, inputs, 1) IN
          /\ r.error = "none"
          /\ SetMerger([r.merger EXCEPT
                           !.merged_data = clean_empty_fields(@)])
          /\ output_file' = clean_empty_fields(r.merger.merged_data)
    /\ inputs' = inputs \o inputs
    /\ pc' = "done again"
    /\ UNCHANGED <<task, filtered, error, pairVars, dirVars, convVars, uiVars>>

\* run once more: a process_ method raises KeyError
RunAgainRaise ==
    /\ task = "single"
    /\ pc = "done"
    /\ LET r == RunFrom(Merger, inputs, 1) IN
          /\ r.error # "none"
          /\ SetMerger(r.merger)
          /\ error' = r.error
          /\ inputs' = inputs \o SubSeq(inputs, 1, r.read)
    /\ pc' = "failed"
    /\ UNCHANGED <<task, output_file, filtered, pairVars, dirVars, convVars,
                   uiVars>>

NextRerun ==
    \/ UIProcessFile
    \/ CleanEmptyFields
    \/ SaveOutput
    \/ RunAgain
    \/ RunAgainRaise

SpecRerun == Init /\ [][NextRerun]_vars

(***************************************************************************)
(* Properties of the homogeneous merger.                                   *)
(***************************************************************************)
OutLicenses == Get(merged_data, "licenses", <<>>)
OutCategories == Get(merged_data, "categories", <<>>)
OutImages == Get(merged_data, "images", <<>>)
OutAnnotations == Get(merged_data, "annotations", <<>>)

IdsOf(list) == {list[i]["id"] : i \in DOMAIN list}

\* the ids of a list are pairwise distinct and are exactly 1..n
DenseIds(list) ==
    /\ IdsOf(list) = 1..Len(list)
    /\ \A i, j \in DOMAIN list : list[i]["id"] = list[j]["id"] => i = j

\* C1: after any sequence of input datasets the license, category, image and
\* annotation ids of the merged dataset are pairwise distinct and exactly
\* 1..n, and each next-id counter is n + 1.
C1_DenseIds ==
    /\ DenseIds(OutLicenses) /\ next_license_id = Len(OutLicenses) + 1
    /\ DenseIds(OutCategories) /\ next_category_id = Len(OutCategories) + 1
    /\ DenseIds(OutImages) /\ next_image_id = Len(OutImages) + 1
    /\ DenseIds(OutAnnotations)
    /\ next_annotation_id = Len(OutAnnotations) + 1

C1_Witness ==
    /\ pc = "done"
    /\ Len(OutLicenses) = 2
    /\ Len(OutCategories) = 2
    /\ Len(OutImages) = 2
    /\ Len(OutAnnotations) = 2

\* C2: every annotation of the merged output has an image_id that is the id
\* of an output image and a category_id that is the id of an output category.
C2_ReferentialIntegrity ==
    \A i \in DOMAIN OutAnnotations :
        /\ OutAnnotations[i]["image_id"] \in IdsOf(OutImages)
        /\ OutAnnotations[i]["category_id"] \in IdsOf(OutCategories)

\* the annotations of a file that reference an image of that same file
OwnImageAnnotations(coco_data) ==
    {i \in DOMAIN coco_data["annotations"] :
        coco_data["annotations"][i]["image_id"] \in IdsOf(coco_data["images"])}

RECURSIVE SumOwnImageAnnotations(_)
SumOwnImageAnnotations(files) ==
    IF files = <<>> THEN 0
    ELSE Cardinality(OwnImageAnnotations(Head(files)))
         + SumOwnImageAnnotations(Tail(files))

\* C3: an annotation whose image_id is not the id of an image of its own
\* source file is dropped, whatever files were processed before, and the
\* image table consulted for a file's annotations holds only that file's
\* images.
C3_OrphansDropped ==
    /\ Len(OutAnnotations) <= SumOwnImageAnnotations(inputs)
    /\ inputs # <<>> =>
          LET file == inputs[Len(inputs)] IN
          \A ann \in Range(file["annotations"]) :
              ann["image_id"] \in DOMAIN image_id_map
                  => ann["image_id"] \in IdsOf(file["images"])

RECURSIVE AllCategoryKeys(_)
AllCategoryKeys(files) ==
    IF files = <<>> THEN {}
    ELSE {CategoryKey(c) : c \in Range(Head(files)["categories"])}
         \cup AllCategoryKeys(Tail(files))

\* the source annotations of a file that a step kept, in order, given the
\* image table the step left
KeptAnnotations(coco_data, table) ==
    SelectSeq(coco_data["annotations"],
              LAMBDA ann : ann["image_id"] \in DOMAIN table)

\* the categories of a file that carry the given id
CategoriesWithId(coco_data, id) ==
    {i \in DOMAIN coco_data["categories"] :
        coco_data["categories"][i]["id"] = id}

\* C4 across one processed file: one output category per natural key seen so
\* far, the ids assigned earlier are kept, and every annotation the step kept
\* whose source category is determined has the id first assigned to that
\* category's key.
C4_Step ==
    inputs' # inputs =>
      LET file == inputs'[Len(inputs')]
          cats == Get(merged_data', "categories", <<>>)
          anns == Get(merged_data', "annotations", <<>>)
          kept == KeptAnnotations(file, image_id_map')
          base == Len(OutAnnotations)
      IN /\ {CategoryKey(cats[i]) : i \in DOMAIN cats}
               = AllCategoryKeys(inputs')
         /\ \A i, j \in DOMAIN cats :
               CategoryKey(cats[i]) = CategoryKey(cats[j]) => i = j
         /\ \A i \in DOMAIN OutCategories : cats[i] = OutCategories[i]
         /\ \A k \in DOMAIN category_map :
               category_map'[k] = category_map[k]
         /\ Len(anns) = base + Len(kept)
         /\ \A n \in DOMAIN kept :
               LET src == CategoriesWithId(file, kept[n]["category_id"]) IN
               Cardinality(src) = 1 =>
                 \E i \in DOMAIN cats :
                    /\ CategoryKey(cats[i])
                         = CategoryKey(file["categories"]
                                           [CHOOSE c \in src : TRUE])
                    /\ anns[base + n]["category_id"] = cats[i]["id"]

\* C4: the output holds exactly one category per natural key, with the id
\* assigned when the key was first seen, and every kept annotation of a
\* source category with that key has that id as its category_id.
C4_CategoryDedup == [][C4_Step]_vars

\* two files name the category ("cat", "none") with the ids 1 and 2, and the
\* second file's annotation of category 2 is kept with the merged id 1
C4_Witness ==
    /\ Len(inputs) = 2
    /\ inputs[1]["categories"] = <<[id |-> 1, name |-> "cat",
                                   supercategory |-> "none"]>>
    /\ inputs[2]["categories"] = <<[id |-> 2, name |-> "cat",
                                   supercategory |-> "none"]>>
    /\ inputs[2]["images"] # <<>>
    /\ inputs[2]["annotations"] # <<>>
    /\ inputs[2]["annotations"][1]["category_id"] = 2
    /\ inputs[2]["annotations"][1]["image_id"] = inputs[2]["images"][1]["id"]
    /\ Len(OutCategories) = 1
    /\ Len(OutAnnotations) >= 1
    /\ OutAnnotations[Len(OutAnnotations)]["category_id"] = 1

\* C5 across the second reading of the same file: the categories list after
\* [fileA, fileA] is the one after [fileA]
C5_Step ==
    (Len(inputs) = 1 /\ Len(inputs') = 2 /\ inputs'[2] = inputs[1]) =>
        Get(merged_data', "categories", <<>>) = OutCategories

\* C5: the homogeneous merger on [fileA, fileA] produces the same categories
\* list (entries, ids, order) as on [fileA].
C5_DedupIdempotent == [][C5_Step]_vars

C5_Witness ==
    /\ Len(inputs) = 2
    /\ inputs[1] = inputs[2]
    /\ Len(inputs[1]["categories"]) = 2
    /\ Len(OutCategories) = 2
    /\ pc = "done"

(***************************************************************************)
(* Properties of the three mergers and of the heterogeneous mergers.       *)
(***************************************************************************)
RECURSIVE SumAnnotations(_)
SumAnnotations(files) ==
    IF files = <<>> THEN 0
    ELSE Len(Head(files)["annotations"]) + SumAnnotations(Tail(files))

\* the number of annotations of all the inputs the merger has read
InputAnnotationCount ==
    CASE task = "single" -> SumAnnotations(inputs)
      [] task = "dual" -> SumAnnotations(<<strawberries_data, flowers_data>>)
      [] task = "multi" -> SumAnnotations(strawberry_annotations)
                           + SumAnnotations(flower_annotations)

\* the number of annotations of the merged dataset
OutputAnnotationCount ==
    IF task = "single" THEN Len(OutAnnotations)
    ELSE Len(output_file["annotations"])

\* C6: for each of the three mergers the merged annotation count is at most
\* the sum of the input annotation counts, with equality exactly when no
\* annotation was filtered out.
C6_MonotoneCount ==
    (task = "single" \/ pc = "done") =>
        /\ OutputAnnotationCount <= InputAnnotationCount
        /\ (OutputAnnotationCount = InputAnnotationCount <=> filtered = 0)

\* the primary dataset whose categories the running heterogeneous merger uses
PrimaryData ==
    IF task = "dual" THEN strawberries_data ELSE strawberry_annotations[1]

\* the id of the category of that name in a dataset that names it once
InputCategoryId(data, name) ==
    (CHOOSE c \in Range(data["categories"]) : c["name"] = name)["id"]

\* the entries of the output categories with the given name
OutputCategoriesNamed(name) ==
    {i \in DOMAIN output_file["categories"] :
        output_file["categories"][i]["name"] = name}

\* C7: in the pair merger and in the directory merger the id of the
\* renumbered flower category is max(id(fruit_ripe), id(fruit_unripe)) + 1,
\* strictly greater than both primary ids, whatever the original flower id.
C7_CollisionFreeId ==
    (task \in {"dual", "multi"} /\ pc = "done") =>
        LET ripe == InputCategoryId(PrimaryData, "fruit_ripe")
            unripe == InputCategoryId(PrimaryData, "fruit_unripe")
        IN /\ OutputCategoriesNamed("flower") # {}
           /\ \A i \in OutputCategoriesNamed("flower") :
                 LET new == output_file["categories"][i]["id"] IN
                 /\ new = Max(ripe, unripe) + 1
                 /\ new > ripe
                 /\ new > unripe

\* fruit_ripe has the greater id and the flower's original id is the id of a
\* primary category
C7_Witness ==
    /\ task = "dual"
    /\ pc = "done"
    /\ InputCategoryId(strawberries_data, "fruit_ripe") = 2
    /\ InputCategoryId(strawberries_data, "fruit_unripe") = 1
    /\ InputCategoryId(flowers_data, "flower") = 1
    /\ output_file["categories"][3]["id"] = 3

\* C8: the categories array of the pair merger's output is exactly
\* [fruit_ripe with its primary id, fruit_unripe with its primary id, flower
\* with the renumbered id], whatever other categories the sources have.
C8_OutputVocabulary ==
    (task = "dual" /\ pc = "done") =>
        LET ripe == InputCategoryId(strawberries_data, "fruit_ripe")
            unripe == InputCategoryId(strawberries_data, "fruit_unripe")
        IN output_file["categories"]
             = <<[id |-> ripe, name |-> "fruit_ripe"],
                 [id |-> unripe, name |-> "fruit_unripe"],
                 [id |-> Max(ripe, unripe) + 1, name |-> "flower"]>>

\* the primary dataset has a fourth category, with annotations
C8_Witness ==
    /\ task = "dual"
    /\ pc = "done"
    /\ \E c \in Range(strawberries_data["categories"]) : c["name"] = "leaf"
    /\ InputCategoryId(flowers_data, "flower") = 7
    /\ Len(output_file["categories"]) = 3
    /\ Len(output_file["annotations"]) = 2

\* C9: every annotation of the pair merger's output has an image_id that is
\* the id of an output image and a category_id that is the id of one of the
\* three output categories.
C9_PairReferentialIntegrity ==
    (task = "dual" /\ pc = "done") =>
        \A i \in DOMAIN output_file["annotations"] :
            /\ output_file["annotations"][i]["image_id"]
                 \in IdsOf(output_file["images"])
            /\ output_file["annotations"][i]["category_id"]
                 \in IdsOf(output_file["categories"])

NamesOf(data) == {c["name"] : c \in Range(data["categories"])}

\* C10: merge fails with the missing-category error exactly when fruit_ripe
\* or fruit_unripe is absent from the primary categories or flower from the
\* secondary ones, for every integer id, and then writes no output file.
C10_MissingCategoryCheck ==
    (task = "dual" /\ pc \in {"failed", "done"}) =>
        /\ pc = "failed" <=>
              \/ "fruit_ripe" \notin NamesOf(strawberries_data)
              \/ "fruit_unripe" \notin NamesOf(strawberries_data)
              \/ "flower" \notin NamesOf(flowers_data)
        /\ pc = "failed" =>
              /\ error = "Missing expected categories in input files."
              /\ output_file = NoFile

(***************************************************************************)
(* Properties of the Geometry Normalizer.                                  *)
(***************************************************************************)
\* numeric as python counts it: an int, a float, or a bool (a kind of int)
Numeric(v) == v.type \in {"int", "float", "bool"}

\* the annotation has a bbox that is a list of exactly 4 numeric elements,
\* each of them >= 0
FourNonNegativeNumbers(ann) ==
    /\ "bbox" \in DOMAIN ann
    /\ ann["bbox"].type = "list"
    /\ Len(ann["bbox"].items) = 4
    /\ \A i \in 1..4 : Numeric(ann["bbox"].items[i])
    /\ ~\E i \in 1..4 : ann["bbox"].items[i].value < 0

C12_NormalizerIdempotent ==
    pc = "converted" =>
        /\ validate(output_file) = "none"
        /\ clean_annotations(output_file) = output_file

\* the first application dropped an annotation and cleared a polygon
C12_Witness ==
    /\ pc = "converted"
    /\ input_path = "input"
    /\ Len(input_file["annotations"]) = 2
    /\ input_file["annotations"][2]["segmentation"] # <<>>
    /\ Len(output_file["annotations"]) = 1
    /\ output_file["annotations"][1]["id"] = 2
    /\ clean_annotations(input_file) # input_file

\* C13: when the dataset convert has loaded lacks one of the five required
\* keys, convert gets no further than validate; it ends with the error that
\* names the first missing key, the loaded dataset is as it was read, and the
\* output path holds what it held before (the input itself when the two
\* paths are the same, nothing otherwise).
C13_ValidateBeforeWrite ==
    (/\ task = "Bbox"
     /\ pc # "load"
     /\ ~(TopLevelKeys \subseteq DOMAIN InputContent))
    => /\ pc \in {"validate", "failed"}
       /\ conv_data = InputContent
       /\ input_path = "input" => output_file = NoFile
       /\ pc = "failed" =>
             \E k \in TopLevelKeys \ DOMAIN InputContent :
                 error = MissingKeyError(k)

\* convert has failed on a file that is both its input and its output, and
\* the polygon of its annotation is still in the file
C13_Witness ==
    /\ task = "Bbox"
    /\ pc = "failed"
    /\ input_path = "output"
    /\ error = "Missing required key in COCO JSON: 'licenses'"
    /\ "annotations" \in DOMAIN output_file
    /\ Len(output_file["annotations"]) = 1
    /\ output_file["annotations"][1]["segmentation"] # <<>>
    /\ "bbox" \notin DOMAIN output_file["annotations"][1]

(***************************************************************************)
(* Properties of the merge tasks.                                          *)
(***************************************************************************)
\* C14: when a file the homogeneous merger has read lacks one of the five
\* required top-level fields, run has aborted with the missing-required-field
\* error and the output path holds no file.
C14_MergerInputValidation ==
    (/\ task = "single"
     /\ \E i \in DOMAIN inputs : ~(TopLevelKeys \subseteq DOMAIN inputs[i]))
    => /\ pc = "failed"
       /\ \E k \in TopLevelKeys : error = MissingKeyError(k)
       /\ output_file = NoFile

\* a file without "licenses" was read, and the run has written its output
C14_WrittenAnyway ==
    /\ task = "single"
    /\ pc = "done"
    /\ Len(inputs) = 1
    /\ "licenses" \notin DOMAIN inputs[1]
    /\ output_file = merged_data
    /\ error = "none"

\* the info of the output, the empty map when the key was dropped
OutInfo == Get(merged_data, "info", EmptyDict)

\* the date_created of the info of a file, the empty string when it has none
InfoDate(file) == Get(file["info"], "date_created", <<>>)

\* the files read so far that have an info
InfoInputs == {i \in DOMAIN inputs : "info" \in DOMAIN inputs[i]}

\* those of them whose date_created no other exceeds
LatestInputs ==
    {i \in InfoInputs :
        \A j \in InfoInputs :
            ~StrGreater(InfoDate(inputs[j]), InfoDate(inputs[i]))}

Earliest(S) == CHOOSE i \in S : \A j \in S : i <= j

\* C15: after any sequence of files that have the five fields, the output
\* info is the info of the earliest-processed file among those whose
\* date_created (the empty string when missing) is lexicographically
\* greatest.
C15_InfoRecency ==
    (/\ task = "single"
     /\ inputs # <<>>
     /\ \A i \in DOMAIN inputs : TopLevelKeys \subseteq DOMAIN inputs[i])
    => OutInfo = inputs[Earliest(LatestInputs)]["info"]

\* C15, amended: after any sequence of files, the output info is the info of
\* the earliest-processed file among those that have a non-empty info whose
\* date_created (the empty string when missing) is lexicographically
\* greatest; it is the empty map when no file has a non-empty info.
C15_InfoRecencyNonEmpty ==
    task = "single" =>
        LET nonEmpty == {i \in LatestInputs : ~Empty(inputs[i]["info"])}
        IN OutInfo = IF nonEmpty = {} THEN EmptyDict
                     ELSE inputs[Earliest(nonEmpty)]["info"]

\* two files of the same, greatest date_created: the first one's info is kept
C15_Witness ==
    /\ task = "single"
    /\ pc = "done"
    /\ Len(inputs) = 2
    /\ "info" \in DOMAIN inputs[1]
    /\ "info" \in DOMAIN inputs[2]
    /\ inputs[1]["info"] = [date_created |-> <<2, 5>>, description |-> "d"]
    /\ inputs[2]["info"] = [date_created |-> <<2, 5>>]
    /\ "info" \in DOMAIN output_file
    /\ output_file["info"] = inputs[1]["info"]

\* C16: once the homogeneous merger has written its output for one or more
\* files that have the five fields, convert on that file does not fail, and
\* when it has returned the file holds the merged dataset normalized.
C16_MergeThenNormalize ==
    (/\ task = "single"
     /\ inputs # <<>>
     /\ \A i \in DOMAIN inputs : TopLevelKeys \subseteq DOMAIN inputs[i])
    =>  /\ pc # "failed"
        /\ pc = "converted" => output_file = clean_annotations(merged_data)

\* no source has a license: convert fails on the merged file, which stays
\* as the merger wrote it
C16_FailedPostPass ==
    /\ task = "single"
    /\ pc = "failed"
    /\ error = "Missing required key in COCO JSON: 'licenses'"
    /\ \A i \in DOMAIN inputs :
          /\ TopLevelKeys \subseteq DOMAIN inputs[i]
          /\ inputs[i]["licenses"] = <<>>
    /\ Len(OutAnnotations) = 2
    /\ output_file = merged_data

(***************************************************************************)
(* Properties of the heterogeneous mergers, continued.                     *)
(***************************************************************************)
\* python's a < b on the file names of the model
NameLess(a, b) == a = "a.jpg" /\ b = "b.jpg"

\* the outputs the merger can write for the inputs it has loaded, one for
\* each order in which the set of file names can be iterated
PossibleOutputs ==
    IF task = "dual"
    THEN {FinalCoco(strawberries_data, flowers_data, order) :
             order \in Orderings(PairFileNames(strawberries_data,
                                               flowers_data))}
    ELSE {DirMergedData(strawberry_annotations, flower_annotations, order) :
             order \in Orderings(
                 DOMAIN DirStrawDict(strawberry_annotations)
                 \cup DOMAIN DirFlowerDict(strawberry_annotations,
                                           flower_annotations))}

\* C17: the pair merger and the directory merger give the images ids in
\* ascending order of file_name, and a second run on the same inputs writes
\* the same image id for every file_name and the same annotation ids.
C17_DeterministicIds ==
    (task \in {"dual", "multi"} /\ pc = "done") =>
        /\ \A i, j \in DOMAIN output_file["images"] :
              NameLess(output_file["images"][i]["file_name"],
                       output_file["images"][j]["file_name"])
              => output_file["images"][i]["id"]
                   < output_file["images"][j]["id"]
        /\ PossibleOutputs = {output_file}

\* C18: the output of the pair merger has exactly one image for each
\* file_name of an image of either input, the image ids are exactly 1..n and
\* the annotation ids are exactly 1..m.
C18_ImageUnion ==
    (task = "dual" /\ pc = "done") =>
        LET names == {img["file_name"] :
                         img \in Range(strawberries_data["images"])
                                 \cup Range(flowers_data["images"])}
            images == output_file["images"]
        IN /\ {images[i]["file_name"] : i \in DOMAIN images} = names
           /\ Len(images) = Cardinality(names)
           /\ DenseIds(images)
           /\ DenseIds(output_file["annotations"])

\* two images of different names, one from each input, the second without
\* any annotation
C18_Witness ==
    /\ task = "dual"
    /\ pc = "done"
    /\ Len(strawberries_data["images"]) = 1
    /\ Len(flowers_data["images"]) = 1
    /\ flowers_data["annotations"] = <<>>
    /\ Len(output_file["images"]) = 2
    /\ Len(output_file["annotations"]) = 1
    /\ output_file["annotations"][1]["id"] = 1

\* the category ids of the dataset are pairwise distinct
DistinctCategoryIds(data) ==
    \A i, j \in DOMAIN data["categories"] :
        data["categories"][i]["id"] = data["categories"][j]["id"] => i = j

\* the datasets the merger has loaded
LoadedDatasets ==
    IF task = "dual" THEN {strawberries_data, flowers_data}
    ELSE Range(strawberry_annotations) \cup Range(flower_annotations)

\* C19: when the pair merger or the directory merger has succeeded on inputs
\* whose own category ids are distinct, the ids of the output categories are
\* pairwise distinct and are exactly 1..n.
C19_DenseCategoryIds ==
    (/\ task \in {"dual", "multi"}
     /\ pc = "done"
     /\ \A data \in LoadedDatasets : DistinctCategoryIds(data))
    => DenseIds(output_file["categories"])

(***************************************************************************)
(* Properties of a merge followed by the normalizer.                       *)
(***************************************************************************)
\* every annotation of the dataset has the id of one of its images and of
\* one of its categories
ResolvedReferences(data) ==
    \A i \in DOMAIN data["annotations"] :
        /\ data["annotations"][i]["image_id"] \in IdsOf(data["images"])
        /\ data["annotations"][i]["category_id"]
             \in IdsOf(data["categories"])

\* C20: when clean_annotations has run on the file a merger wrote, and the
\* annotation ids of that file were pairwise distinct and exactly 1..n with
\* every reference resolved, then the annotation ids of the resulting dataset
\* are pairwise distinct and exactly 1..m, and every remaining annotation
\* references an image and a category of the dataset.
C20_DenseIdsSurvive ==
    (/\ task \in {"single", "dual"}
     /\ pc = "save"
     /\ DenseIds(output_file["annotations"])
     /\ ResolvedReferences(output_file))
    => /\ DenseIds(conv_data["annotations"])
       /\ ResolvedReferences(conv_data)

\* C20, the part that holds: the references of the remaining annotations
\* stay resolved and their ids stay pairwise distinct
C20_ReferencesSurvive ==
    (/\ task \in {"single", "dual"}
     /\ pc = "save"
     /\ DenseIds(output_file["annotations"])
     /\ ResolvedReferences(output_file))
    => /\ ResolvedReferences(conv_data)
       /\ \A i, j \in DOMAIN conv_data["annotations"] :
             conv_data["annotations"][i]["id"]
               = conv_data["annotations"][j]["id"] => i = j

(***************************************************************************)
(* Properties of repeated and reordered runs of the homogeneous merger.    *)
(***************************************************************************)
\* a second invocation of run, from its start to its end
C21_Step ==
    (pc = "done" /\ pc' \in {"done again", "failed"}) =>
        /\ next_license_id = 1 /\ next_category_id = 1
        /\ next_image_id = 1 /\ next_annotation_id = 1
        /\ Empty(license_map) /\ Empty(category_map) /\ Empty(image_id_map)
        /\ \A k \in DOMAIN merged_data : Empty(merged_data[k])
        /\ pc' = "done again"
        /\ output_file' = output_file

\* C21: when run is invoked a second time on the same merger and the same
\* inputs, the invocation starts with the four counters at 1, with empty
\* license, category and image maps and an empty merged dataset, and it
\* ends writing the same output as the first invocation.
C21_FreshPerInvocation == [][C21_Step]_vars

\* the second invocation has written the images of the directory twice
C21_DoubledOutput ==
    /\ pc = "done again"
    /\ Len(inputs) = 2
    /\ inputs[1] = inputs[2]
    /\ "images" \in DOMAIN inputs[1]
    /\ Len(inputs[1]["images"]) = 1
    /\ Len(output_file["images"]) = 2
    /\ next_image_id = 3

(***************************************************************************)
(* Properties of the join of the heterogeneous mergers.                    *)
(***************************************************************************)
DistinctImageIds(data) ==
    \A i, j \in DOMAIN data["images"] :
        data["images"][i]["id"] = data["images"][j]["id"] => i = j

\* the category ids of the annotations of the dataset that have one of the
\* given categories and whose image_id is the id of an image of the dataset
\* named n, in the order of the dataset
JoinedCategories(data, category_ids, n) ==
    LET joined ==
          SelectSeq(data["annotations"],
             LAMBDA ann :
                /\ ann["category_id"] \in category_ids
                /\ \E img \in Range(data["images"]) :
                      /\ img["id"] = ann["image_id"]
                      /\ img["file_name"] = n)
    IN [i \in DOMAIN joined |-> joined[i]["category_id"]]

\* the ids of the categories of the dataset that have the given name
IdsNamed(data, name) ==
    {c["id"] : c \in {c \in Range(data["categories"]) : c["name"] = name}}

\* C22: in the output of the pair merger the annotations that carry the id
\* of an output image are the annotations that referenced an image of that
\* file_name in their own dataset, the primary ones before the secondary
\* ones; every output annotation carries the id of an output image, so an
\* annotation whose image_id resolves to no image of its dataset is not in
\* the output.
C22_PairJoin ==
    (/\ task = "dual" /\ pc = "done"
     /\ DistinctImageIds(strawberries_data)
     /\ DistinctImageIds(flowers_data)) =>
        LET images == output_file["images"]
            annotations == output_file["annotations"]
            primary_ids == {c["id"] :
                               c \in Range(strawberries_data["categories"])}
            flower_ids == IdsNamed(flowers_data, "flower")
            new_flower == CHOOSE id \in IdsNamed(output_file, "flower") : TRUE
            of_image(i) ==
               SelectSeq(annotations, LAMBDA ann : ann["image_id"] = i)
        IN /\ \A k \in DOMAIN annotations :
                 \E i \in DOMAIN images :
                    images[i]["id"] = annotations[k]["image_id"]
           /\ \A i \in DOMAIN images :
                 LET n == images[i]["file_name"]
                     own == of_image(images[i]["id"])
                     secondary ==
                        JoinedCategories(flowers_data, flower_ids, n)
                 IN [k \in DOMAIN own |-> own[k]["category_id"]]
                    = JoinedCategories(strawberries_data, primary_ids, n)
                      \o [k \in DOMAIN secondary |-> new_flower]

\* two images of different names, one per dataset, each with an annotation,
\* and the image of the secondary dataset numbered first
C22_Witness ==
    /\ task = "dual"
    /\ pc = "done"
    /\ Len(output_file["images"]) = 2
    /\ Len(output_file["annotations"]) = 2
    /\ output_file["images"][1]["file_name"]
          = flowers_data["images"][1]["file_name"]
    /\ output_file["annotations"][1]["category_id"]
          \notin {c["id"] : c \in Range(strawberries_data["categories"])}
    /\ output_file["annotations"][2]["image_id"] = 2

\* an annotation of the primary dataset whose image_id is the id of no image
\* of the dataset, and an output without annotations
C22_Dropped ==
    /\ task = "dual"
    /\ pc = "done"
    /\ Len(strawberries_data["annotations"]) = 1
    /\ Len(strawberries_data["images"]) = 1
    /\ strawberries_data["annotations"][1]["image_id"]
          # strawberries_data["images"][1]["id"]
    /\ output_file["annotations"] = <<>>

\* C23: in the output of the directory merger every annotation contributed
\* by the secondary directory has the renumbered flower id as category_id,
\* and the category_id of every output annotation is the id of one of the
\* three output categories.
C23_CategoryRestriction ==
    (task = "multi" /\ pc = "done") =>
        LET flower_dict == DirFlowerDict(strawberry_annotations,
                                         flower_annotations)
            new_flower == CHOOSE id \in IdsNamed(output_file, "flower") : TRUE
            annotations == output_file["annotations"]
        IN /\ \A name \in DOMAIN flower_dict :
                 \A k \in DOMAIN flower_dict[name][2] :
                    flower_dict[name][2][k]["category_id"] = new_flower
           /\ \A k \in DOMAIN annotations :
                 annotations[k]["category_id"]
                    \in {c["id"] : c \in Range(output_file["categories"])}

\* the part of C23 about the secondary directory; it holds for the
\* directories of FlowerFiles, whose files declare no other category than
\* flower
C23_SecondaryRenumbered ==
    (task = "multi" /\ pc = "done") =>
        LET flower_dict == DirFlowerDict(strawberry_annotations,
                                         flower_annotations)
            new_flower == CHOOSE id \in IdsNamed(output_file, "flower") : TRUE
        IN \A name \in DOMAIN flower_dict :
              \A k \in DOMAIN flower_dict[name][2] :
                 flower_dict[name][2][k]["category_id"] = new_flower

(***************************************************************************)
(* Frame of the Geometry Normalizer.                                       *)
(***************************************************************************)
\* the annotation without its segmentation
WithoutSegmentation(ann) ==
    [k \in DOMAIN ann \ {"segmentation"} |-> ann[k]]

\* C24: once clean_annotations has run, the dataset has the top-level keys
\* it had, every key other than annotations has the value it had, and the
\* annotations are a subsequence of the input's annotations (same relative
\* order), each with every field other than segmentation as it was, the id
\* included.
C24_NormalizerFrame ==
    pc = "save" =>
        LET in == InputContent["annotations"]
            out == conv_data["annotations"]
        IN /\ DOMAIN conv_data = DOMAIN InputContent
           /\ \A k \in DOMAIN conv_data \ {"annotations"} :
                 conv_data[k] = InputContent[k]
           /\ \E f \in [DOMAIN out -> DOMAIN in] :
                 /\ \A i, j \in DOMAIN out : i < j => f[i] < f[j]
                 /\ \A j \in DOMAIN out :
                       WithoutSegmentation(out[j])
                          = WithoutSegmentation(in[f[j]])

\* the first annotation is dropped; the second is kept with the id 2 and
\* its bbox, and loses its polygon
C24_Witness ==
    /\ pc = "save"
    /\ Len(InputContent["annotations"]) = 2
    /\ ~ValidBBox(InputContent["annotations"][1])
    /\ InputContent["annotations"][2]["segmentation"] # <<>>
    /\ Len(conv_data["annotations"]) = 1
    /\ conv_data["annotations"][1]["id"] = 2
    /\ conv_data["annotations"][1]["bbox"]
          = InputContent["annotations"][2]["bbox"]
    /\ conv_data["images"] = InputContent["images"]

\* both annotations are kept, in the order of the input
C24_BothKept ==
    /\ pc = "save"
    /\ Len(InputContent["annotations"]) = 2
    /\ Len(conv_data["annotations"]) = 2
    /\ InputContent["annotations"][1]["bbox"]
          # InputContent["annotations"][2]["bbox"]
    /\ conv_data["annotations"][1]["bbox"]
          = InputContent["annotations"][1]["bbox"]

(***************************************************************************)
(* Growth of the identity remapper.                                        *)
(***************************************************************************)
\* the key-to-id map n has every entry of m
Extends(m, n) ==
    /\ DOMAIN m \subseteq DOMAIN n
    /\ \A key \in DOMAIN m : n[key] = m[key]

\* from the merger m to the merger n no counter decreases and the license
\* and category maps keep their entries
Grows(m, n) ==
    /\ m.next_license_id <= n.next_license_id
    /\ m.next_category_id <= n.next_category_id
    /\ m.next_image_id <= n.next_image_id
    /\ m.next_annotation_id <= n.next_annotation_id
    /\ Extends(m.license_map, n.license_map)
    /\ Extends(m.category_map, n.category_map)

\* the mergers a file leaves after each of its process_ steps, each checked
\* against the one before
StagesGrow(m, coco_data) ==
    \A m1 \in {process_info(m, coco_data)} :
    \A m2 \in {process_licenses(m1, coco_data)} :
    \A m3 \in {process_categories(m2, coco_data)} :
    \A m4 \in {process_images(m3, coco_data)} :
    \A m5 \in {process_annotations(m4, coco_data)} :
       /\ Grows(m, m1) /\ Grows(m1, m2) /\ Grows(m2, m3)
       /\ Grows(m3, m4) /\ Grows(m4, m5)

C25_Step ==
    /\ Grows(Merger, Merger')
    /\ (pc = "process_all_files" /\ inputs' # inputs) =>
          StagesGrow(Merger, inputs'[Len(inputs')])

\* C25: the four counters start at 1; over every step of the merger, and
\* over each of the process_ steps a file goes through, no counter
\* decreases, the license and category maps only gain keys, and a key that
\* has an id keeps it.
C25_RemapperGrowth ==
    /\ next_license_id = 1 /\ next_category_id = 1
    /\ next_image_id = 1 /\ next_annotation_id = 1
    /\ [][C25_Step]_vars

\* the second file repeats the license and a category of the first and
\* brings a new category: the counters have advanced and the repeated keys
\* have the ids of the first file
C25_Witness ==
    /\ task = "single"
    /\ Len(inputs) = 2
    /\ inputs[1]["licenses"] # <<>>
    /\ inputs[2]["licenses"] = inputs[1]["licenses"]
    /\ Len(inputs[1]["categories"]) = 1
    /\ Len(inputs[2]["categories"]) = 2
    /\ inputs[2]["categories"][2] = inputs[1]["categories"][1]
    /\ CategoryKey(inputs[2]["categories"][1])
          # CategoryKey(inputs[1]["categories"][1])
    /\ next_license_id = 2
    /\ next_category_id = 3
    /\ category_map[CategoryKey(inputs[1]["categories"][1])] = 1
    /\ next_image_id = 3

(***************************************************************************)
(* The homogeneous merge over the orders of the directory and over its own *)
(* output.                                                                 *)
(***************************************************************************)
\* process_all_files over the given files, from the merger m
RECURSIVE MergeAll(_, _)
MergeAll(m, files) ==
    IF files = <<>> THEN m
    ELSE MergeAll(ProcessOneFile(m, Head(files)), Tail(files))

\* what run writes for a directory whose files are read in the given order
RunOutput(files) ==
    clean_empty_fields(MergeAll(NewMerger, files).merged_data)

\* the sizes of a written dataset and its category keys
Sizes(data) ==
    [images |-> Len(Get(data, "images", <<>>)),
     annotations |-> Len(Get(data, "annotations", <<>>)),
     categories |-> Len(Get(data, "categories", <<>>)),
     licenses |-> Len(Get(data, "licenses", <<>>)),
     category_keys |-> {CategoryKey(c) :
                           c \in Range(Get(data, "categories", <<>>))}]

\* C26: the numbers of images, annotations, categories and licenses of the
\* merged output and the set of its category keys are the same for every
\* order in which the files of the directory are processed.
C26_OrderIndependence ==
    (task = "single" /\ pc = "done") =>
        \A order \in Orderings(DOMAIN inputs) :
            Sizes(RunOutput([i \in DOMAIN order |-> inputs[order[i]]]))
               = Sizes(output_file)

\* the images of the files in the order they are processed, each with the
\* licenses of its file
RECURSIVE ImageSources(_)
ImageSources(files) ==
    IF files = <<>> THEN <<>>
    ELSE LET images == Get(Head(files), "images", <<>>) IN
         [i \in DOMAIN images |->
             [image |-> images[i],
              licenses |-> Get(Head(files), "licenses", <<>>)]]
         \o ImageSources(Tail(files))

\* C27: every image of the merged output that carries a license field has
\* as license the id of an output license, and that output license has the
\* (name, url) key of the license the image referenced in its source file.
C27_ImageLicenseIntegrity ==
    (task = "single" /\ pc = "done") =>
        LET sources == ImageSources(inputs)
            images == Get(output_file, "images", <<>>)
            licenses == Get(output_file, "licenses", <<>>)
        IN /\ Len(images) = Len(sources)
           /\ \A k \in DOMAIN images :
                 "license" \in DOMAIN images[k] =>
                    /\ "license" \in DOMAIN sources[k].image
                    /\ \E l \in Range(sources[k].licenses) :
                       \E out \in Range(licenses) :
                          /\ l["id"] = sources[k].image["license"]
                          /\ LicenseKey(out) = LicenseKey(l)
                          /\ out["id"] = images[k]["license"]

\* C27 for the images whose license field names a license of their file
C27_ResolvedLicenses ==
    (task = "single" /\ pc = "done") =>
        LET sources == ImageSources(inputs)
            images == Get(output_file, "images", <<>>)
            licenses == Get(output_file, "licenses", <<>>)
        IN \A k \in DOMAIN images :
              \A l \in Range(sources[k].licenses) :
                 ("license" \in DOMAIN sources[k].image
                  /\ l["id"] = sources[k].image["license"]) =>
                    \E out \in Range(licenses) :
                       /\ LicenseKey(out) = LicenseKey(l)
                       /\ out["id"] = images[k]["license"]

\* C28: the homogeneous merger run on a directory whose only file is the
\* output of a homogeneous merge writes that same dataset: the same
\* top-level keys, entries, ids and order.
C28_RemergeRoundTrip ==
    (task = "single" /\ pc = "done") =>
        RunOutput(<<output_file>>) = output_file

\* an output of two files with a shared license, two categories, a licensed
\* image whose id was renumbered, and an annotation on the second image
C28_Witness ==
    /\ task = "single"
    /\ pc = "done"
    /\ Len(inputs) = 2
    /\ "licenses" \in DOMAIN output_file
    /\ Len(output_file["licenses"]) = 1
    /\ "categories" \in DOMAIN output_file
    /\ Len(output_file["categories"]) = 2
    /\ "images" \in DOMAIN output_file
    /\ Len(output_file["images"]) = 2
    /\ "license" \in DOMAIN output_file["images"][1]
    /\ inputs[1]["images"][1]["id"] # 1
    /\ "annotations" \in DOMAIN output_file
    /\ Len(output_file["annotations"]) = 2
    /\ output_file["annotations"][2]["image_id"] = 2
    /\ output_file["annotations"][2]["category_id"] = 2

\* an output without licenses and annotations, whose image has a license
\* field: the re-merge leaves the keys out again
C28_DroppedKeys ==
    /\ task = "single"
    /\ pc = "done"
    /\ DOMAIN output_file = {"info", "images"}
    /\ "license" \in DOMAIN output_file["images"][1]

(***************************************************************************)
(* Annotation loss in the directory merger.                                *)
(***************************************************************************)
\* the annotations of the files of a directory that come from a file with
\* images and annotations and have one of the valid category ids, as pairs
\* of the file's and the annotation's position
Contributed(files, category_ids) ==
    UNION {{<<f, i>> :
              i \in {i \in DOMAIN files[f]["annotations"] :
                        files[f]["annotations"][i]["category_id"]
                           \in category_ids}} :
           f \in {f \in DOMAIN files : files[f]["images"] # <<>>}}

\* C29: the output of the directory merger has one annotation for every
\* annotation of either directory that has a valid category id of its side
\* and comes from a file with images and annotations, also when two files
\* of a directory name the same image file_name.
C29_NoAnnotationLoss ==
    (task = "multi" /\ pc = "done") =>
        LET straw_ids == {c["id"] :
               c \in Range(strawberry_annotations[1]["categories"])}
            flower_ids == {c["id"] :
               c \in Range(flower_annotations[1]["categories"])}
        IN Len(output_file["annotations"])
              = Cardinality(Contributed(strawberry_annotations, straw_ids))
                + Cardinality(Contributed(flower_annotations, flower_ids))

\* C29 for the directories in which no two files name the same file_name
C29_DistinctNames ==
    (/\ task = "multi" /\ pc = "done"
     /\ \A files \in {strawberry_annotations, flower_annotations} :
           \A i, j \in DOMAIN files :
              (/\ i # j
               /\ ~SkippedFile(files[i]) /\ ~SkippedFile(files[j]))
              => files[i]["images"][1]["file_name"]
                    # files[j]["images"][1]["file_name"]) =>
        LET straw_ids == {c["id"] :
               c \in Range(strawberry_annotations[1]["categories"])}
            flower_ids == {c["id"] :
               c \in Range(flower_annotations[1]["categories"])}
        IN Len(output_file["annotations"])
              = Cardinality(Contributed(strawberry_annotations, straw_ids))
                + Cardinality(Contributed(flower_annotations, flower_ids))

(***************************************************************************)
(* The statistics of the single merge task.                                *)
(***************************************************************************)
\* the image count, the annotation count and the count of each category id
Counted(stats) ==
    [total_images |-> stats.total_images,
     total_anns |-> stats.total_anns,
     counts |-> {<<stats.lines[k].cat_id, stats.lines[k].count>> :
                    k \in DOMAIN stats.lines}]

\* C30: once start_merge has displayed the statistics, the image count, the
\* annotation count and the per-category counts on display are those of the
\* dataset the output file holds, with either annotation format.
C30_StatsMatchFile ==
    (task = "single" /\ pc = "displayed") =>
        Counted(stats_label) = Counted(display_stats(output_file))

\* C30 with the format "with_masks": no converter has run
C30_WithMasks ==
    (task = "single" /\ pc = "displayed" /\ conv_data = EmptyDict) =>
        Counted(stats_label) = Counted(display_stats(output_file))

\* the statistics run_merge displays are those of the output file
C30_DualStats ==
    (task = "dual" /\ pc = "displayed") =>
        Counted(stats_label) = Counted(display_stats(output_file))

\* with "bbox_only" the statistics count an annotation the converter dropped
C30_StaleStats ==
    /\ task = "single"
    /\ pc = "displayed"
    /\ conv_data # EmptyDict
    /\ stats_label.total_anns = 2
    /\ Len(output_file["annotations"]) = 1

====
